---- MODULE Spec2Model ----
(***************************************************************************)
(* StudySprint backend (src/backend/src/server.js, lines 1-220): the goal  *)
(* collection, its id counter, the data file and the request handlers of   *)
(* the express application, modelled as a state machine.                   *)
(*                                                                         *)
(* JavaScript values are records [t, s, n]: t is the typeof-like tag, s    *)
(* the characters of a string (a sequence of one-character strings), n the *)
(* value of a number or boolean.  The goal objects live in a heap of       *)
(* addresses, because the handlers keep references to them across the      *)
(* await of saveGoals.  A handler runs its synchronous part as one action  *)
(* (the event loop does not interleave it); what follows `await            *)
(* saveGoals()` are further actions of the same request.                   *)
(***************************************************************************)
EXTENDS Integers, Sequences, FiniteSets, TLC

VARIABLES phase, heap, goals, nextGoalId, file, reqs, ev, issued, toggled, retired

vars == <<phase, heap, goals, nextGoalId, file, reqs, ev, issued, toggled, retired>>

(***************************************************************************)
(* Bounds of the model.                                                    *)
(***************************************************************************)
\* creates are accepted while nextGoalId is at most this bound: MaxGoalId for
\* the client of Spec, MaxPayloadId for the client of SpecPayload
MaxGoalId == 2
MaxPayloadId == 1
\* requests that may be awaiting saveGoals at the same time
MaxInFlight == 2
\* imports and creates of the client of SpecImport are accepted while the ids
\* they assign are at most this bound
MaxImportId == 2

(***************************************************************************)
(* JavaScript values and strings.                                          *)
(***************************************************************************)
Undefined == [t |-> "undefined", s |-> <<>>, n |-> 0]
Null == [t |-> "null", s |-> <<>>, n |-> 0]
Num(k) == [t |-> "number", s |-> <<>>, n |-> k]
Bool(b) == [t |-> "boolean", s |-> <<>>, n |-> IF b THEN 1 ELSE 0]
Str(cs) == [t |-> "string", s |-> cs, n |-> 0]

IsString(v) == v.t = "string"

\* ToBoolean: undefined, null, "", 0 and false are falsy
Truthy(v) ==
    CASE v.t = "undefined" -> FALSE
      [] v.t = "null" -> FALSE
      [] v.t = "string" -> v.s # <<>>
      [] OTHER -> v.n # 0

Whitespace == {" ", "\t", "\n"}
Digits == {"0", "1", "2", "3", "4", "5", "6", "7", "8", "9"}
UpperCase == <<"A", "B", "C", "D", "E", "F", "G", "H", "I", "J", "K", "L", "M",
               "N", "O", "P", "Q", "R", "S", "T", "U", "V", "W", "X", "Y", "Z">>
LowerCase == <<"a", "b", "c", "d", "e", "f", "g", "h", "i", "j", "k", "l", "m",
               "n", "o", "p", "q", "r", "s", "t", "u", "v", "w", "x", "y", "z">>

RECURSIVE TrimStart(_)
TrimStart(cs) ==
    IF cs # <<>> /\ Head(cs) \in Whitespace THEN TrimStart(Tail(cs)) ELSE cs

RECURSIVE TrimEnd(_)
TrimEnd(cs) ==
    IF cs # <<>> /\ cs[Len(cs)] \in Whitespace
    THEN TrimEnd(SubSeq(cs, 1, Len(cs) - 1))
    ELSE cs

\* String.prototype.trim
Trim(cs) == TrimEnd(TrimStart(cs))

LowerChar(c) ==
    IF \E i \in DOMAIN UpperCase : UpperCase[i] = c
    THEN LowerCase[CHOOSE i \in DOMAIN UpperCase : UpperCase[i] = c]
    ELSE c

\* String.prototype.toLowerCase
ToLowerCase(cs) == [i \in DOMAIN cs |-> LowerChar(cs[i])]

\* String.prototype.includes
Includes(cs, sub) ==
    \E k \in 0..(Len(cs) - Len(sub)) :
        \A i \in DOMAIN sub : cs[k + i] = sub[i]

Low == <<"l", "o", "w">>
Medium == <<"m", "e", "d", "i", "u", "m">>
High == <<"h", "i", "g", "h">>

validPriorities == {Low, Medium, High}

\* parsePriority without the validPriorities.has test
ParsePriorityUnchecked(value) ==
    IF IsString(value) THEN Str(ToLowerCase(Trim(value.s))) ELSE Null

\* parsePriority: the normalized string, or null
parsePriority(value) ==
    LET normalized == IF IsString(value) THEN ToLowerCase(Trim(value.s)) ELSE <<>>
    IN IF normalized \in validPriorities THEN Str(normalized) ELSE Null

\* the pattern of /^\d{4}-\d{2}-\d{2}$/: "d" stands for \d, "-" for itself
DatePattern == <<"d", "d", "d", "d", "-", "d", "d", "-", "d", "d">>

RECURSIVE MatchFrom(_, _)
MatchFrom(cs, pat) ==
    IF pat = <<>> THEN cs = <<>>
    ELSE /\ cs # <<>>
         /\ IF Head(pat) = "d" THEN Head(cs) \in Digits ELSE Head(cs) = Head(pat)
         /\ MatchFrom(Tail(cs), Tail(pat))

DateRegexTest(cs) == MatchFrom(cs, DatePattern)

\* parseDueDate without the test of the pattern
ParseDueDateUntested(value) ==
    IF value.t \in {"undefined", "null"} \/ value = Str(<<>>) THEN Null
    ELSE IF ~IsString(value) THEN Null
    ELSE Str(Trim(value.s))

\* parseDueDate: the trimmed string when it has the YYYY-MM-DD shape, or null
parseDueDate(value) ==
    IF value.t \in {"undefined", "null"} \/ value = Str(<<>>) THEN Null
    ELSE IF ~IsString(value) THEN Null
    ELSE LET clean == Trim(value.s)
         IN IF DateRegexTest(clean) THEN Str(clean) ELSE Null

(***************************************************************************)
(* The goal objects, the collection and the data file.                     *)
(***************************************************************************)
\* the object literal of the create handler
NewGoal(id, title, priority, dueDate, createdAt) ==
    [id |-> id, title |-> title, priority |-> priority, dueDate |-> dueDate,
     completed |-> FALSE, createdAt |-> createdAt]

\* goal.archived: undefined when the object has no such property
Archived(g) == IF "archived" \in DOMAIN g THEN Bool(g.archived) ELSE Undefined

\* the goal objects of the collection, in its order
Collection == [i \in DOMAIN goals |-> heap[goals[i]]]

\* JSON.stringify(goals): the objects' values at the moment of the call
Stringify(h, g) == [i \in DOMAIN g |-> h[g[i]]]

FileAbsent == [kind |-> "absent", items |-> <<>>]
FileGarbage == [kind |-> "garbage", items |-> <<>>]
FileObject == [kind |-> "object", items |-> <<>>]
FileArray(items) == [kind |-> "array", items |-> items]

\* goals.find((item) => item.id === id): the first match, 0 when there is none
Find(id) ==
    IF \E i \in DOMAIN goals : heap[goals[i]].id = id
    THEN CHOOSE i \in DOMAIN goals :
            /\ heap[goals[i]].id = id
            /\ \A j \in DOMAIN goals : heap[goals[j]].id = id => i <= j
    ELSE 0

\* goals.splice(index): everything from index on is removed
SpliceToEnd(g, index) == [i \in 1..(index - 1) |-> g[i]]

\* goals.splice(index, 1)
Splice(g, index) == [i \in 1..(Len(g) - 1) |-> IF i < index THEN g[i] ELSE g[i + 1]]

\* a new object's address
FreshAddr == CHOOSE a \in 1..(Cardinality(DOMAIN heap) + 1) :
                /\ a \notin DOMAIN heap
                /\ \A b \in 1..(a - 1) : b \in DOMAIN heap

RECURSIVE MaxIdOf(_)
\* goals.reduce((max, goal) => Math.max(max, Number(goal.id) || 0), 0)
MaxIdOf(items) ==
    IF items = <<>> THEN 0
    ELSE LET rest == MaxIdOf(Tail(items))
         IN IF Head(items).id > rest THEN Head(items).id ELSE rest

(***************************************************************************)
(* Requests awaiting saveGoals, and the last event.                        *)
(***************************************************************************)
Slots == 1..MaxInFlight

\* was remembers, for a toggle, the value of completed its handler found
Idle ==
    [op |-> "none", id |-> 0, ref |-> 0, pc |-> "idle", snap |-> <<>>, status |-> 0,
     was |-> FALSE]

Awaiting(op, id, ref, status) ==
    [op |-> op, id |-> id, ref |-> ref, pc |-> "mkdir", snap |-> <<>>, status |-> status,
     was |-> FALSE]

InFlight == {s \in Slots : reqs[s] # Idle}

FreeSlot == CHOOSE s \in Slots : reqs[s] = Idle /\ \A u \in Slots : reqs[u] = Idle => s <= u

NoQuery == [status |-> Undefined, priority |-> Undefined, q |-> Undefined]

\* ev is the response the last step sent, if it sent one: the operation, the
\* status and the goals of the body (item, or items)
Response(op, status, items) == [op |-> op, status |-> status, items |-> items]

NoResponse == Response("none", 0, <<>>)

\* the objects still reachable from the collection or from a pending handler
Live(h, g, r) ==
    LET keep == {g[i] : i \in DOMAIN g} \cup {r[s].ref : s \in DOMAIN r}
    IN [a \in (DOMAIN h) \cap keep |-> h[a]]

\* retired is the id of the goal whose deletion reached the data file last, 0
\* when a create has been accepted since (or nothing was deleted); like the
\* file it outlives the process.
\* toggled remembers the run of toggles of one goal that no other change of
\* the collection interrupts: the goal's id, the collection before the first
\* toggle of the run, and whether the last toggle was the 1st or the 2nd of a pair
NoToggle == [id |-> 0, pre |-> <<>>, n |-> 0]

(***************************************************************************)
(* The synchronous decisions of the handlers, as functions.                *)
(***************************************************************************)
\* const title = typeof req.body?.title === "string" ? req.body.title.trim() : ""
CreateTitle(body) == IF IsString(body.title) THEN Trim(body.title.s) ELSE <<>>

\* const priority = parsePriority(req.body?.priority) || "medium"
CreatePriority(body) ==
    IF Truthy(parsePriority(body.priority)) THEN parsePriority(body.priority).s ELSE Medium

\* the create handler testing the title before it is trimmed
CreateStatusUntrimmedTitle(body) ==
    IF ~IsString(body.title) \/ body.title.s = <<>> THEN 400
    ELSE IF Truthy(body.priority) /\ ~Truthy(parsePriority(body.priority)) THEN 400
    ELSE IF Truthy(body.dueDate) /\ ~Truthy(parseDueDate(body.dueDate)) THEN 400
    ELSE 201

\* the create handler without its check of a supplied priority
CreateStatusAnyPriority(body) ==
    IF CreateTitle(body) = <<>> THEN 400
    ELSE IF Truthy(body.dueDate) /\ ~Truthy(parseDueDate(body.dueDate)) THEN 400
    ELSE 201

\* the status the create handler decides on before it builds the goal
CreateStatus(body) ==
    IF CreateTitle(body) = <<>> THEN 400
    ELSE IF Truthy(body.priority) /\ ~Truthy(parsePriority(body.priority)) THEN 400
    ELSE IF Truthy(body.dueDate) /\ ~Truthy(parseDueDate(body.dueDate)) THEN 400
    ELSE 201

\* `id: nextGoalId` without the increment
NotIncrementedId == nextGoalId

\* nextGoalId after `id: nextGoalId++`
IncrementedId == nextGoalId + 1

\* goal.title = title, without the trim
UpdatedTitleUntrimmed(title) == title.s

\* goal.title = title.trim()
UpdatedTitle(title) == Trim(title.s)

\* an assignment of the priority that also stamps the goal anew
WithPriorityRestamped(g, parsed) ==
    [g EXCEPT !.priority = parsed.s, !.createdAt = g.createdAt + 1]

\* goal.priority = parsed
WithPriority(g, parsed) == [g EXCEPT !.priority = parsed.s]

\* a null leaves the date the goal had
WithDueDateUnlessNull(g, parsed) ==
    IF parsed = Null THEN g ELSE [g EXCEPT !.dueDate = parsed]

\* goal.dueDate = parsed
WithDueDate(g, parsed) == [g EXCEPT !.dueDate = parsed]

\* the update handler on the goal g: the fields are checked and assigned one
\* after the other, and a 400 returns at once with what was assigned so far
UpdateOutcome(g, body) ==
    LET title == body.title
        priority == body.priority
        dueDate == body.dueDate
        titleBad == title # Undefined /\ (~IsString(title) \/ Trim(title.s) = <<>>)
        g1 == IF title # Undefined /\ ~titleBad
              THEN [g EXCEPT !.title = UpdatedTitle(title)] ELSE g
        parsedP == parsePriority(priority)
        prioBad == priority # Undefined /\ ~Truthy(parsedP)
        g2 == IF priority # Undefined /\ ~prioBad
              THEN WithPriority(g1, parsedP) ELSE g1
        parsedD == parseDueDate(dueDate)
        dueBad == dueDate # Undefined /\ dueDate # Null /\ ~Truthy(parsedD)
        g3 == IF dueDate # Undefined /\ ~dueBad
              THEN WithDueDate(g2, parsedD) ELSE g2
    IN IF titleBad THEN [status |-> 400, goal |-> g]
       ELSE IF prioBad THEN [status |-> 400, goal |-> g1]
       ELSE IF dueBad THEN [status |-> 400, goal |-> g2]
       ELSE [status |-> 200, goal |-> g3]

\* goal.completed = true
ToggledToDone(g) == [g EXCEPT !.completed = TRUE]

\* the goal replaced by a new object that keeps id, title and createdAt only
ToggledRebuilt(g) ==
    [g EXCEPT !.completed = ~g.completed, !.priority = Medium, !.dueDate = Null]

\* goal.completed = !goal.completed
Toggled(g) == [g EXCEPT !.completed = ~g.completed]

\* PATCH /api/goals/:id/archive, which the list view calls and server.js does
\* not define; after the description of the endpoint, goal.archived becomes the
\* value of the body, or the negation of what it was when the body has none
SetArchived(g, value) ==
    LET flag == IF value = Undefined THEN Archived(g) # Bool(TRUE) ELSE Truthy(value)
    IN [x \in DOMAIN g \cup {"archived"} |-> IF x = "archived" THEN flag ELSE g[x]]

(* POST /api/goals/import, which the list view calls and server.js does not
   define; after the description of the import: every candidate is normalized
   in the order of the batch, a candidate whose title is empty after the trim
   rejects the whole batch, and the first such index is reported. *)
ImportTitle(candidate) ==
    IF IsString(candidate.title) THEN Trim(candidate.title.s) ELSE <<>>

\* the first index whose title is empty before any trim, -1 when there is none
FirstRejectedUntrimmed(items) ==
    LET bad == {i \in DOMAIN items : ~IsString(items[i].title) \/ items[i].title.s = <<>>}
    IN IF bad = {} THEN -1 ELSE (CHOOSE i \in bad : \A j \in bad : i <= j) - 1

\* the first index (from 0) of a candidate that is rejected, -1 when there is none
FirstRejected(items) ==
    LET bad == {i \in DOMAIN items : ImportTitle(items[i]) = <<>>}
    IN IF bad = {} THEN -1 ELSE (CHOOSE i \in bad : \A j \in bad : i <= j) - 1

\* the goal a candidate becomes: its own id when it is a positive number, else
\* the id it is given; priority medium and dueDate null when they are invalid
Normalized(candidate, id, now) ==
    [id |-> IF candidate.id.t = "number" /\ candidate.id.n > 0 THEN candidate.id.n ELSE id,
     title |-> ImportTitle(candidate),
     priority |-> IF Truthy(parsePriority(candidate.priority))
                  THEN parsePriority(candidate.priority).s ELSE Medium,
     dueDate |-> parseDueDate(candidate.dueDate),
     completed |-> Truthy(candidate.completed),
     archived |-> Truthy(candidate.archived),
     createdAt |-> now]

\* nextGoalId = goals.length + 1
LoadedCounterByLength(items) == Len(items) + 1

\* nextGoalId = maxId + 1
LoadedCounter(items) == MaxIdOf(items) + 1

\* saveGoals() called without await: the response does not wait for it
RespondsWithoutAwait(r) == r.pc \in {"mkdir", "write", "saved"}

\* the code after `await saveGoals()` runs once the write has completed
ReadyToRespond(r) == r.pc = "saved"

(***************************************************************************)
(* filterGoals.                                                            *)
(***************************************************************************)
QueryText(v) == IF IsString(v) THEN ToLowerCase(Trim(v.s)) ELSE <<>>

\* the filter without its branch for status=completed
KeepsUnlessActive(goal, query) ==
    LET status == QueryText(query.status)
        priority == QueryText(query.priority)
        q == QueryText(query.q)
    IN /\ ~(status = <<"a", "c", "t", "i", "v", "e">> /\ goal.completed)
       /\ ~(priority # <<>> /\ priority # <<"a", "l", "l">> /\ goal.priority # priority)
       /\ ~(q # <<>> /\ ~Includes(ToLowerCase(goal.title), q))

\* the filter comparing q with the title as it was typed
KeepsTitleAsTyped(goal, query) ==
    LET status == QueryText(query.status)
        priority == QueryText(query.priority)
        q == QueryText(query.q)
    IN /\ ~(status = <<"a", "c", "t", "i", "v", "e">> /\ goal.completed)
       /\ ~(status = <<"c", "o", "m", "p", "l", "e", "t", "e", "d">> /\ ~goal.completed)
       /\ ~(priority # <<>> /\ priority # <<"a", "l", "l">> /\ goal.priority # priority)
       /\ ~(q # <<>> /\ ~Includes(goal.title, q))

Keeps(goal, query) ==
    LET status == QueryText(query.status)
        priority == QueryText(query.priority)
        q == QueryText(query.q)
    IN /\ ~(status = <<"a", "c", "t", "i", "v", "e">> /\ goal.completed)
       /\ ~(status = <<"c", "o", "m", "p", "l", "e", "t", "e", "d">> /\ ~goal.completed)
       /\ ~(priority # <<>> /\ priority # <<"a", "l", "l">> /\ goal.priority # priority)
       /\ ~(q # <<>> /\ ~Includes(ToLowerCase(goal.title), q))

RECURSIVE filterGoals(_, _)
filterGoals(items, query) ==
    IF items = <<>> THEN <<>>
    ELSE (IF Keeps(Head(items), query) THEN <<Head(items)>> ELSE <<>>)
         \o filterGoals(Tail(items), query)

(***************************************************************************)
(* The counts of GET /api/goals/stats.                                     *)
(***************************************************************************)
\* items.filter((goal) => goal.priority === name).length
CountPriority(items, name) == Len(SelectSeq(items, LAMBDA goal : goal.priority = name))

\* the counts taken over the whole collection, whatever the query selects
StatsOfCollection(items) ==
    LET all == [i \in DOMAIN goals |-> heap[goals[i]]]
        completed == Len(SelectSeq(all, LAMBDA goal : goal.completed))
    IN [total |-> Len(all), active |-> Len(all) - completed, completed |-> completed,
        low |-> CountPriority(all, Low), medium |-> CountPriority(all, Medium),
        high |-> CountPriority(all, High)]

\* total, active, completed and byPriority of the filtered items
Stats(items) ==
    LET completed == Len(SelectSeq(items, LAMBDA goal : goal.completed))
    IN [total |-> Len(items), active |-> Len(items) - completed, completed |-> completed,
        low |-> CountPriority(items, Low), medium |-> CountPriority(items, Medium),
        high |-> CountPriority(items, High)]

(***************************************************************************)
(* Start of the process.                                                   *)
(***************************************************************************)
Init ==
    /\ phase = "boot"
    /\ heap = <<>>
    /\ goals = <<>>
    /\ nextGoalId = 1
    /\ file \in {FileAbsent, FileGarbage, FileObject}
    /\ reqs = [s \in Slots |-> Idle]
    /\ ev = NoResponse
    /\ issued = {}
    /\ toggled = NoToggle
    /\ retired = 0

\* the data file is left as it was
LoadedFileUntouched(f) == f

\* every file that holds no array is replaced by "[]"
LoadedFileReset(f) == IF f.kind = "array" THEN f ELSE FileArray(<<>>)

\* the catch block of loadGoals: ENOENT writes "[]", any other error returns
LoadedFile(f) == IF f.kind = "absent" THEN FileArray(<<>>) ELSE f

\* console.error("Failed to load goals data:", error): JSON.parse has thrown
LoadReport(f) ==
    IF f.kind = "garbage" THEN Response("console.error", 0, <<>>) ELSE NoResponse

\* await loadGoals(), then app.listen
LoadGoals ==
    /\ phase = "boot"
    /\ phase' = "up"
    /\ IF file.kind = "array"
       THEN /\ heap' = [a \in DOMAIN file.items |-> file.items[a]]
            /\ goals' = [i \in DOMAIN file.items |-> i]
            /\ nextGoalId' = LoadedCounter(file.items)
            /\ file' = file
       ELSE /\ UNCHANGED <<heap, goals, nextGoalId>>
            /\ file' = LoadedFile(file)
    /\ ev' = LoadReport(file)
    /\ UNCHANGED <<reqs, issued, toggled, retired>>

\* the process ends and is started again: only the data file survives
Restart ==
    /\ phase = "up"
    /\ phase' = "boot"
    /\ heap' = <<>>
    /\ goals' = <<>>
    /\ nextGoalId' = 1
    /\ reqs' = [s \in Slots |-> Idle]
    /\ ev' = NoResponse
    /\ issued' = {}
    /\ toggled' = NoToggle
    /\ UNCHANGED <<file, retired>>

(***************************************************************************)
(* The request handlers up to their first await.  limit is the number of   *)
(* requests the clients keep pending at once.                              *)
(***************************************************************************)
\* POST /api/goals
Create(body, now, limit, ids) ==
    /\ phase = "up"
    /\ Cardinality(InFlight) < limit
    /\ IF CreateStatus(body) = 400
       THEN /\ ev' = Response("create", 400, <<>>)
            /\ UNCHANGED <<phase, heap, goals, nextGoalId, file, reqs, issued, toggled, retired>>
       ELSE LET a == FreshAddr
                goal == NewGoal(nextGoalId, CreateTitle(body), CreatePriority(body),
                                parseDueDate(body.dueDate), now)
            IN /\ nextGoalId \in ids
               /\ nextGoalId' = IncrementedId
               /\ heap' = [x \in DOMAIN heap \cup {a} |-> IF x = a THEN goal ELSE heap[x]]
               /\ goals' = Append(goals, a)
               /\ reqs' = [reqs EXCEPT ![FreeSlot] = Awaiting("create", 0, a, 201)]
               /\ issued' = issued \cup {goal.id}
               /\ toggled' = NoToggle
               /\ retired' = 0
               /\ ev' = NoResponse
               /\ UNCHANGED <<phase, file>>

\* PATCH /api/goals/:id
Update(id, body, limit) ==
    /\ phase = "up"
    /\ Cardinality(InFlight) < limit
    /\ IF Find(id) = 0
       THEN /\ ev' = Response("update", 404, <<>>)
            /\ UNCHANGED <<phase, heap, goals, nextGoalId, file, reqs, issued, toggled, retired>>
       ELSE LET a == goals[Find(id)]
                res == UpdateOutcome(heap[a], body)
            IN /\ heap' = [heap EXCEPT ![a] = res.goal]
               /\ IF res.status = 400
                  THEN /\ ev' = Response("update", 400, <<>>)
                       /\ reqs' = reqs
                  ELSE /\ ev' = NoResponse
                       /\ reqs' = [reqs EXCEPT ![FreeSlot] = Awaiting("update", id, a, 200)]
               /\ toggled' = IF res.status = 400 /\ res.goal = heap[a]
                             THEN toggled ELSE NoToggle
               /\ UNCHANGED <<phase, goals, nextGoalId, file, issued, retired>>

\* PATCH /api/goals/:id/toggle
Toggle(id, limit) ==
    /\ phase = "up"
    /\ Cardinality(InFlight) < limit
    /\ IF Find(id) = 0
       THEN /\ ev' = Response("toggle", 404, <<>>)
            /\ UNCHANGED <<phase, heap, goals, nextGoalId, file, reqs, issued, toggled, retired>>
       ELSE LET a == goals[Find(id)]
            IN /\ heap' = [heap EXCEPT ![a] = Toggled(heap[a])]
               /\ reqs' = [reqs EXCEPT ![FreeSlot] =
                              [Awaiting("toggle", id, a, 200)
                                  EXCEPT !.was = heap[a].completed]]
               /\ toggled' = IF toggled.id = id /\ toggled.n = 1
                             THEN [toggled EXCEPT !.n = 2]
                             ELSE [id |-> id, pre |-> Collection, n |-> 1]
               /\ ev' = NoResponse
               /\ UNCHANGED <<phase, goals, nextGoalId, file, issued, retired>>

\* DELETE /api/goals/:id
Delete(id, limit) ==
    /\ phase = "up"
    /\ Cardinality(InFlight) < limit
    /\ IF Find(id) = 0
       THEN /\ ev' = Response("delete", 404, <<>>)
            /\ UNCHANGED <<phase, heap, goals, nextGoalId, file, reqs, issued, toggled, retired>>
       ELSE LET g == Splice(goals, Find(id))
                r == [reqs EXCEPT ![FreeSlot] = Awaiting("delete", id, 0, 204)]
            IN /\ goals' = g
               /\ reqs' = r
               /\ heap' = Live(heap, g, r)
               /\ toggled' = NoToggle
               /\ ev' = NoResponse
               /\ UNCHANGED <<phase, nextGoalId, file, issued, retired>>

\* GET /api/goals
GetGoals(query) ==
    /\ phase = "up"
    /\ ev' = Response("list", 200, filterGoals(Collection, query))
    /\ UNCHANGED <<phase, heap, goals, nextGoalId, file, reqs, issued, toggled, retired>>

\* GET /api/goals/stats
GetStats(query) ==
    /\ phase = "up"
    /\ ev' = Response("stats", 200, <<Stats(filterGoals(Collection, query))>>)
    /\ UNCHANGED <<phase, heap, goals, nextGoalId, file, reqs, issued, toggled, retired>>

\* PATCH /api/goals/:id/archive
Archive(id, value, limit) ==
    /\ phase = "up"
    /\ Cardinality(InFlight) < limit
    /\ IF Find(id) = 0
       THEN /\ ev' = Response("archive", 404, <<>>)
            /\ UNCHANGED <<phase, heap, goals, nextGoalId, file, reqs, issued, toggled, retired>>
       ELSE LET a == goals[Find(id)]
            IN /\ heap' = [heap EXCEPT ![a] = SetArchived(heap[a], value)]
               /\ reqs' = [reqs EXCEPT ![FreeSlot] = Awaiting("archive", id, a, 200)]
               /\ toggled' = NoToggle
               /\ ev' = NoResponse
               /\ UNCHANGED <<phase, goals, nextGoalId, file, issued, retired>>

\* POST /api/goals/import: mode merge appends the batch, any other mode
\* replaces the collection; ids not supplied are counted from nextGoalId
Import(mode, items, now, limit, ids) ==
    /\ phase = "up"
    /\ Cardinality(InFlight) < limit
    /\ IF FirstRejected(items) # -1
       THEN /\ ev' = Response("import", 400, <<[index |-> FirstRejected(items)]>>)
            /\ UNCHANGED <<phase, heap, goals, nextGoalId, file, reqs, issued, toggled, retired>>
       ELSE LET top == IF DOMAIN heap = {} THEN 0
                       ELSE CHOOSE a \in DOMAIN heap : \A b \in DOMAIN heap : b <= a
                new == [i \in DOMAIN items |-> Normalized(items[i], nextGoalId + i - 1, now)]
                kept == IF mode = Str(<<"m", "e", "r", "g", "e">>) THEN goals ELSE <<>>
                g == kept \o [i \in DOMAIN items |-> top + i]
                h == [a \in DOMAIN heap \cup {top + i : i \in DOMAIN items} |->
                         IF a \in DOMAIN heap THEN heap[a] ELSE new[a - top]]
                r == [reqs EXCEPT ![FreeSlot] = Awaiting("import", 0, 0, 200)]
            IN /\ \A i \in DOMAIN items : new[i].id \in ids
               /\ goals' = g
               /\ heap' = Live(h, g, r)
               /\ reqs' = r
               /\ nextGoalId' = LoadedCounter([i \in DOMAIN g |-> h[g[i]]])
               /\ issued' = issued \cup {new[i].id : i \in DOMAIN items}
               /\ toggled' = NoToggle
               /\ ev' = NoResponse
               /\ UNCHANGED <<phase, file, retired>>

(***************************************************************************)
(* saveGoals and the rest of a handler.                                    *)
(***************************************************************************)
\* fs.mkdir has returned: the collection is stringified and the write starts
StartWrite(s) ==
    /\ phase = "up"
    /\ reqs[s].pc = "mkdir"
    /\ reqs' = [reqs EXCEPT ![s].pc = "write", ![s].snap = Stringify(heap, goals)]
    /\ ev' = NoResponse
    /\ UNCHANGED <<phase, heap, goals, nextGoalId, file, issued, toggled, retired>>

\* fs.writeFile has replaced the content of the data file
WriteLands(s) ==
    /\ phase = "up"
    /\ reqs[s].pc = "write"
    /\ file' = FileArray(reqs[s].snap)
    /\ reqs' = [reqs EXCEPT ![s].pc = "saved"]
    /\ ev' = NoResponse
    /\ retired' = IF reqs[s].op = "delete" THEN reqs[s].id ELSE retired
    /\ UNCHANGED <<phase, heap, goals, nextGoalId, issued, toggled>>

\* return res.status(...).json({ item: goal }), or .send() for a delete
Respond(s) ==
    /\ phase = "up"
    /\ reqs[s] # Idle
    /\ ReadyToRespond(reqs[s])
    /\ LET r == [reqs EXCEPT ![s] = Idle]
       IN /\ reqs' = r
          /\ heap' = Live(heap, goals, r)
          /\ ev' = Response(reqs[s].op, reqs[s].status,
                            IF reqs[s].ref = 0 THEN <<>> ELSE <<heap[reqs[s].ref]>>)
    /\ UNCHANGED <<phase, goals, nextGoalId, file, issued, toggled, retired>>

\* the rejected call is made again
SaveFailsRetried(s) ==
    /\ phase = "up"
    /\ reqs[s].pc \in {"mkdir", "write"}
    /\ reqs' = [reqs EXCEPT ![s].pc = "mkdir"]
    /\ ev' = NoResponse
    /\ UNCHANGED <<phase, heap, goals, nextGoalId, file, issued, toggled, retired>>

\* fs.mkdir or fs.writeFile rejects: the handler ends without a response
SaveFails(s) ==
    /\ phase = "up"
    /\ reqs[s].pc \in {"mkdir", "write"}
    /\ LET r == [reqs EXCEPT ![s] = Idle]
       IN /\ reqs' = r
          /\ heap' = Live(heap, goals, r)
    /\ ev' = NoResponse
    /\ UNCHANGED <<phase, goals, nextGoalId, file, issued, toggled, retired>>

(***************************************************************************)
(* The payloads the clients send.                                          *)
(***************************************************************************)
TitleA == <<"a">>
TitleBc == <<"B", " ", "c">>
Urgent == <<"u", "r", "g", "e", "n", "t">>

TitlePayloads ==
    {Undefined, Null, Num(7), Str(<<>>), Str(<<" ", "\t">>), Str(TitleA),
     Str(<<" ", "a", "\n">>), Str(TitleBc)}

PriorityPayloads ==
    {Undefined, Null, Num(1), Str(<<>>), Str(Low), Str(Medium),
     Str(<<" ", "H", "I", "G", "H", " ">>), Str(Urgent)}

Feb30 == <<"2", "0", "2", "4", "-", "0", "2", "-", "3", "0">>

DueDatePayloads ==
    {Undefined, Null, Num(20240230), Str(<<>>), Str(Feb30), Str(<<" ">> \o Feb30 \o <<"\n">>),
     Str(<<"2", "0", "2", "4", "-", "2", "-", "3", "0">>),
     Str(<<"t", "o", "m", "o", "r", "r", "o", "w">>)}

Body(title, priority, dueDate) ==
    [title |-> title, priority |-> priority, dueDate |-> dueDate]

\* each field through all its payloads, alone and beside a valid title
Bodies ==
    {Body(t, Undefined, Undefined) : t \in TitlePayloads}
    \cup {Body(t, p, Undefined) : t \in {Undefined, Str(TitleA)}, p \in PriorityPayloads}
    \cup {Body(t, Undefined, d) : t \in {Undefined, Str(TitleA)}, d \in DueDatePayloads}

\* a body that creates a goal, and one that updates a goal's priority
SmallBodies ==
    {Body(Str(TitleA), Undefined, Undefined),
     Body(Undefined, Str(High), Undefined)}

Query(status, priority, q) == [status |-> status, priority |-> priority, q |-> q]

ActiveQuery == Query(Str(<<"a", "c", "t", "i", "v", "e">>), Undefined, Undefined)
CompletedQuery ==
    Query(Str(<<"c", "o", "m", "p", "l", "e", "t", "e", "d">>), Undefined, Undefined)
OverdueQuery == Query(Str(<<"o", "v", "e", "r", "d", "u", "e">>), Undefined, Undefined)

Queries == {NoQuery, ActiveQuery, CompletedQuery}

\* a query string with the parameters the list view adds to the filters
ListParams(query, includeArchived, sortBy, order, page, pageSize) ==
    [status |-> query.status, priority |-> query.priority, q |-> query.q,
     includeArchived |-> includeArchived, sortBy |-> sortBy, order |-> order,
     page |-> page, pageSize |-> pageSize]

\* status=active&includeArchived=false
VisibleActiveQuery ==
    ListParams(ActiveQuery, Str(<<"f", "a", "l", "s", "e">>), Undefined, Undefined,
               Undefined, Undefined)

\* neither page nor pageSize, page=1&pageSize=1, and page=2&pageSize=1
PageQueries ==
    {ListParams(NoQuery, Undefined, Undefined, Undefined, paging[1], paging[2]) :
        paging \in {<<Undefined, Undefined>>, <<Str(<<"1">>), Str(<<"1">>)>>,
                    <<Str(<<"2">>), Str(<<"1">>)>>}}

\* sortBy=priority&order=asc
SortQuery ==
    ListParams(NoQuery, Undefined, Str(<<"p", "r", "i", "o", "r", "i", "t", "y">>),
               Str(<<"a", "s", "c">>), Undefined, Undefined)

ListQueries ==
    {NoQuery, ActiveQuery, CompletedQuery, OverdueQuery, VisibleActiveQuery, SortQuery}
    \cup PageQueries

June14 == <<"2", "0", "2", "4", "-", "0", "6", "-", "1", "4">>

\* SmallBodies, and a body that creates a goal of low priority with a due date
ListBodies == SmallBodies \cup {Body(Str(TitleA), Str(Low), Str(June14))}

\* the bodies of PATCH /api/goals/:id/archive
ArchiveValues == {Bool(TRUE)}

\* the instants new Date() may return
Times == {1, 2}

\* the bodies of a client that edits every field: two that create a goal,
\* one that sets a priority and one that clears the due date
FieldBodies ==
    {Body(Str(TitleA), Undefined, Undefined),
     Body(Str(TitleBc), Str(Low), Str(June14)),
     Body(Undefined, Str(<<" ", "H", "I", "G", "H", " ">>), Undefined),
     Body(Undefined, Undefined, Null)}

\* the bodies of a client that fills a list: two that create a goal and one
\* that sets a priority
FilterBodies ==
    {Body(Str(TitleA), Undefined, Undefined),
     Body(Str(TitleBc), Str(Low), Undefined),
     Body(Undefined, Str(<<" ", "H", "I", "G", "H", " ">>), Undefined)}

\* status=urgent
UrgentQuery == Query(Str(Urgent), Undefined, Undefined)

\* the filters alone, in other case, and together
FilterQueries ==
    {NoQuery, CompletedQuery, UrgentQuery,
     Query(Str(<<" ", "A", "c", "t", "i", "v", "e">>), Undefined, Undefined),
     Query(Undefined, Str(High), Undefined),
     Query(Undefined, Str(<<"a", "l", "l">>), Str(<<"b", " ">>)),
     Query(Undefined, Undefined, Str(<<"A">>)),
     Query(ActiveQuery.status, Str(<<"L", "o", "w">>), Str(<<"C">>))}

\* the queries the counts are asked with
StatsQueries ==
    {NoQuery, CompletedQuery, UrgentQuery, Query(Undefined, Str(High), Undefined)}

\* the ids those clients are given
FieldIds == {1, 2}

\* a record of an import file
Candidate(title, priority) ==
    [title |-> title, priority |-> priority, dueDate |-> Undefined,
     completed |-> Undefined, archived |-> Undefined, id |-> Undefined,
     createdAt |-> Undefined]

Kept == Candidate(Str(<<" ", "a", "\n">>), Str(Urgent))
Blank == Candidate(Str(<<" ", "\t">>), Str(Low))

\* batches that are accepted, and batches with a blank title at index 0, 1, 2
ImportBatches ==
    {<<Kept>>, <<Kept, Kept>>, <<Blank>>, <<Kept, Blank>>, <<Kept, Kept, Blank, Blank>>}

ImportModes == {Undefined, Str(<<"r", "e", "p", "l", "a", "c", "e">>), Str(<<"m", "e", "r", "g", "e">>)}

(***************************************************************************)
(* Specifications.                                                         *)
(***************************************************************************)
\* the requests of clients that use the ids of `ids`
Requests(bodies, times, queries, limit, ids) ==
    \/ \E body \in bodies, now \in times : Create(body, now, limit, ids)
    \/ \E id \in ids, body \in bodies : Update(id, body, limit)
    \/ \E id \in ids : Toggle(id, limit)
    \/ \E id \in ids : Delete(id, limit)
    \/ \E query \in queries : GetGoals(query)

\* the requests of a client that names an id no goal has
Stray(bodies, limit, id) ==
    \/ \E body \in bodies : Update(id, body, limit)
    \/ Toggle(id, limit)
    \/ Delete(id, limit)

Saving ==
    \/ \E s \in Slots : StartWrite(s)
    \/ \E s \in Slots : WriteLands(s)
    \/ \E s \in Slots : Respond(s)

\* one client that awaits each response; the process may be restarted
Next ==
    \/ LoadGoals
    \/ Restart
    \/ Requests(SmallBodies, Times, {NoQuery}, 1, 1..MaxGoalId)
    \/ Saving

Spec == Init /\ [][Next]_vars

\* one client that awaits each response, with every payload, from an empty store
NextPayload ==
    \/ LoadGoals
    \/ Requests(Bodies, {1}, Queries, 1, 1..MaxPayloadId)
    \/ Stray(SmallBodies, 1, MaxPayloadId + 1)
    \/ Saving

SpecPayload == Init /\ [][NextPayload]_vars

\* concurrent clients of one goal, and a file system whose calls may fail
NextAsync ==
    \/ LoadGoals
    \/ Requests(SmallBodies, {1}, {NoQuery}, MaxInFlight, {1})
    \/ Saving
    \/ \E s \in Slots : SaveFails(s)

SpecAsync == Init /\ [][NextAsync]_vars

\* one client of the list view: it filters, sorts, pages and archives
NextQuery ==
    \/ LoadGoals
    \/ Requests(ListBodies, {1}, ListQueries, 1, 1..MaxGoalId)
    \/ \E id \in 1..MaxGoalId, value \in ArchiveValues : Archive(id, value, 1)
    \/ Saving

SpecQuery == Init /\ [][NextQuery]_vars

\* one client that edits every field of two goals
NextFields ==
    \/ LoadGoals
    \/ Requests(FieldBodies, {1}, {NoQuery}, 1, FieldIds)
    \/ Saving

SpecFields == Init /\ [][NextFields]_vars

\* one client that lists and counts two goals under every filter
NextFilter ==
    \/ LoadGoals
    \/ Requests(FilterBodies, {1}, FilterQueries, 1, FieldIds)
    \/ \E query \in StatsQueries : GetStats(query)
    \/ Saving

SpecFilter == Init /\ [][NextFilter]_vars

\* one client that also imports files
NextImport ==
    \/ LoadGoals
    \/ Requests(SmallBodies, {1}, {NoQuery}, 1, 1..MaxImportId)
    \/ \E mode \in ImportModes, items \in ImportBatches :
          Import(mode, items, 1, 1, 1..MaxImportId)
    \/ Saving

SpecImport == Init /\ [][NextImport]_vars

\* concurrent clients of one goal, and a file system whose calls succeed
NextConcurrent ==
    \/ LoadGoals
    \/ Requests(SmallBodies, {1}, {NoQuery}, MaxInFlight, {1})
    \/ Saving

SpecConcurrent == Init /\ [][NextConcurrent]_vars

(***************************************************************************)
(* Properties.                                                             *)
(***************************************************************************)
Ids == {heap[goals[i]].id : i \in DOMAIN goals}

Mutating == {"create", "update", "toggle", "delete"}

Success == {200, 201, 204}

\* a step of the running process that appends a goal to the collection
CreateStep == phase = "up" /\ phase' = "up" /\ Len(goals') = Len(goals) + 1

\* C1: within one running process no two goals of the collection share an id,
\* and every create assigns an id greater than every id an earlier create of
\* the process assigned, also when the goal that held it has been deleted
C1_IdsUniqueNeverReused ==
    /\ [](\A i, j \in DOMAIN goals : i # j => heap[goals[i]].id # heap[goals[j]].id)
    /\ [][CreateStep =>
            LET new == heap'[goals'[Len(goals')]].id
            IN /\ \A k \in issued : new > k
               /\ issued' = issued \cup {new}]_vars

\* a create after the goal with a smaller id was deleted
C1_Witness ==
    /\ phase = "up"
    /\ \E k \in issued : k \notin Ids /\ \E m \in Ids \cap issued : m > k

\* the step sends the success response of the mutating request of slot s
SendsSuccess(s) ==
    /\ reqs[s] # Idle
    /\ reqs'[s] = Idle
    /\ ev'.op = reqs[s].op
    /\ ev'.op \in Mutating
    /\ ev'.status \in Success

\* C2: the success response (201, 200, 204) of a create, update, toggle or
\* delete is sent only after the write that this request issued, after its
\* mutation, has replaced the content of the data file
C2_ResponseAfterWrite ==
    [][\A s \in Slots : SendsSuccess(s) => reqs[s].pc = "saved" /\ file.kind = "array"]_vars

\* a success response has been sent while another request awaits saveGoals
C2_Witness ==
    /\ ev.op \in Mutating
    /\ ev.status \in Success
    /\ InFlight # {}

\* what the data file holds
Persisted == IF file.kind = "array" THEN file.items ELSE <<>>

\* C3: while a mutating request has changed the collection and its write has
\* not completed, a GET /api/goals returns only what the data file holds
C3_ReadsOnlySavedState ==
    [][(ev'.op = "list" /\ \E s \in Slots : reqs[s].pc \in {"mkdir", "write"})
          => ev'.items = Persisted]_vars

\* C4: two successful toggles of one goal with no other change of the
\* collection in between leave the collection as it was before the first
C4_DoubleToggleRestores == toggled.n = 2 => Collection = toggled.pre

\* a goal that was completed has been toggled twice
C4_Witness ==
    /\ toggled.n = 2
    /\ \E i \in DOMAIN goals : heap[goals[i]].id = toggled.id /\ heap[goals[i]].completed

\* the step is the synchronous part of a successful toggle of the goal id
ToggleStep(id) == toggled' # toggled /\ toggled'.id = id

\* C5: one successful toggle negates completed of the goal and changes no other
\* field of it, no other goal, not the order of the collection, not the counter
C5_ToggleChangesOnlyCompleted ==
    [][\A id \in 1..MaxGoalId : ToggleStep(id) =>
            /\ goals' = goals
            /\ nextGoalId' = nextGoalId
            /\ \A i \in DOMAIN goals :
                LET old == heap[goals[i]]
                    new == heap'[goals'[i]]
                IN IF old.id = id
                   THEN /\ new.completed = ~old.completed
                        /\ new.id = old.id
                        /\ new.title = old.title
                        /\ new.priority = old.priority
                        /\ new.dueDate = old.dueDate
                        /\ new.createdAt = old.createdAt
                   ELSE new = old]_vars

\* a goal whose priority was set has been toggled beside another goal
C5_Witness ==
    /\ toggled.n = 1
    /\ Len(goals) = 2
    /\ \E i \in DOMAIN goals :
        /\ heap[goals[i]].id = toggled.id
        /\ heap[goals[i]].completed
        /\ heap[goals[i]].priority = High

\* C6: while the process runs, no request, accepted or rejected, changes the
\* id or the createdAt of a goal that is and stays in the collection
C6_IdAndCreatedAtNeverChange ==
    [][(phase = "up" /\ phase' = "up") =>
            \A i \in DOMAIN goals, j \in DOMAIN goals' :
                goals'[j] = goals[i] =>
                    /\ heap'[goals'[j]].id = heap[goals[i]].id
                    /\ heap'[goals'[j]].createdAt = heap[goals[i]].createdAt]_vars

\* a goal created at the later instant has been updated and toggled
C6_Witness ==
    \E i \in DOMAIN goals :
        /\ heap[goals[i]].priority = High
        /\ heap[goals[i]].completed
        /\ heap[goals[i]].createdAt = 2

\* C7: from an empty store, whatever title payloads creates and updates carry,
\* every title of the collection is non-empty and neither starts nor ends with
\* whitespace
C7_TitlesTrimmedNonEmpty ==
    \A i \in DOMAIN goals :
        LET title == heap[goals[i]].title
        IN /\ Len(title) > 0
           /\ title[1] \notin {" ", "\t", "\n"}
           /\ title[Len(title)] \notin {" ", "\t", "\n"}

\* a title with inner whitespace is stored
C7_Witness == \E i \in DOMAIN goals : heap[goals[i]].title = <<"B", " ", "c">>

\* C8: from an empty store, whatever priority payloads creates and updates
\* carry, every priority of the collection is low, medium or high
C8_PriorityInEnum ==
    \A i \in DOMAIN goals :
        heap[goals[i]].priority \in
            {<<"l", "o", "w">>, <<"m", "e", "d", "i", "u", "m">>, <<"h", "i", "g", "h">>}

\* each of the three values is stored at some time
C8_Witness == \E i \in DOMAIN goals : heap[goals[i]].priority = <<"h", "i", "g", "h">>

IsDigit(c) == c \in {"0", "1", "2", "3", "4", "5", "6", "7", "8", "9"}

\* four digits, a dash, two digits, a dash, two digits
IsYearMonthDay(cs) ==
    /\ Len(cs) = 10
    /\ \A k \in {1, 2, 3, 4, 6, 7, 9, 10} : IsDigit(cs[k])
    /\ cs[5] = "-"
    /\ cs[8] = "-"

\* C9: from an empty store, whatever dueDate payloads creates and updates
\* carry, every dueDate of the collection is null or a string of the shape
\* YYYY-MM-DD; the calendar is not consulted (2024-02-30 is stored)
C9_DueDateNullOrShape ==
    \A i \in DOMAIN goals :
        LET d == heap[goals[i]].dueDate
        IN d = Null \/ (d.t = "string" /\ IsYearMonthDay(d.s))

\* the 30th of February is stored
C9_Witness ==
    \E i \in DOMAIN goals :
        heap[goals[i]].dueDate.s = <<"2", "0", "2", "4", "-", "0", "2", "-", "3", "0">>

\* no request is between the start of its handler and its response
Quiet == phase = "up" /\ InFlight = {}

\* the largest id of the collection, 0 when it is empty
LargestId == IF Ids = {} THEN 0 ELSE CHOOSE m \in Ids : \A k \in Ids : k <= m

\* C10 as stated: whenever no request is mid-handler, nextGoalId is the
\* largest id of the collection plus 1 (1 when the collection is empty)
C10_CounterIsLargestPlusOne == Quiet => nextGoalId = LargestId + 1

\* C10 amended: nextGoalId is greater than every id of the collection; the
\* load sets it to the largest id plus 1; no request lowers it, so it exceeds
\* the largest id plus 1 once the goal with the largest id has been deleted
C10_CounterAboveEveryId ==
    /\ [](Quiet => nextGoalId >= LargestId + 1)
    /\ [][(phase = "boot" /\ phase' = "up") => nextGoalId' = LargestId' + 1]_vars
    /\ [][(phase = "up" /\ phase' = "up") => nextGoalId' >= nextGoalId]_vars

\* a loaded collection whose largest id has then been deleted
C10_Witness ==
    /\ Quiet
    /\ issued = {}
    /\ goals # <<>>
    /\ nextGoalId > LargestId + 1

(***************************************************************************)
(* Ids across restarts.                                                    *)
(***************************************************************************)
\* the goal a CreateStep appends
Appended == heap'[goals'[Len(goals')]]

\* C11: when the deletion of a goal has reached the data file, the next
\* create that is accepted does not assign the deleted goal's id, also when
\* the process has been restarted and has reloaded the file in between
C11_DeletedIdNotReusedAfterRestart ==
    [][CreateStep => Appended.id # retired]_vars

(***************************************************************************)
(* Creation: defaults and rejections.                                      *)
(***************************************************************************)
\* a create request of the client of SpecPayload, with the body b
CreateRequest(b) == Create(b, 1, 1, 1..MaxPayloadId)

\* what every step of the create handler does (Create): it answers at once,
\* or it appends a goal
CreateHandled == phase = "up" /\ (ev'.op = "create" \/ Len(goals') = Len(goals) + 1)

\* the title is a string that is not blank
ValidTitle(b) == IsString(b.title) /\ Trim(b.title.s) # <<>>

\* the value names one of low, medium, high (case and outer blanks aside)
IsPriorityName(v) == IsString(v) /\ ToLowerCase(Trim(v.s)) \in {Low, Medium, High}

\* the bodies of Bodies that hold the title "a", a priority and no dueDate
PriorityBodies == {Body(Str(TitleA), p, Undefined) : p \in PriorityPayloads}

\* the step appends a goal and leaves the answer to follow the write
Accepted == CreateStep /\ ev' = NoResponse

Rejected ==
    /\ ev' = Response("create", 400, <<>>)
    /\ UNCHANGED <<heap, goals, nextGoalId, file, reqs>>

\* C12 as stated: a create with a non-empty title (and no dueDate) whose
\* priority is absent or is not one of low, medium, high is accepted and the
\* goal is stored with priority medium
C12_AbsentOrInvalidPriorityStoredMedium ==
    [][CreateHandled =>
        \A b \in PriorityBodies :
          (ValidTitle(b) /\ b.dueDate = Undefined /\ ~IsPriorityName(b.priority)
              /\ CreateRequest(b))
          => (Accepted /\ Appended.priority = Medium)]_vars

\* C12 amended: a create with a non-empty title and no dueDate is accepted
\* with priority medium when its priority is absent or falsy (null, the empty
\* string); it is rejected with 400, nothing stored, when the priority is any
\* other value that does not name low, medium or high; a priority that names
\* one of them is stored in lower case
C12_FalsyPriorityMediumInvalidRejected ==
    [][CreateHandled =>
        \A b \in PriorityBodies :
          (ValidTitle(b) /\ b.dueDate = Undefined /\ CreateRequest(b))
          => IF ~Truthy(b.priority) THEN Accepted /\ Appended.priority = Medium
             ELSE IF ~IsPriorityName(b.priority) THEN Rejected
             ELSE Accepted /\ Appended.priority = ToLowerCase(Trim(b.priority.s))]_vars

\* a create has been accepted and the goal it stored has priority medium
C12_Witness ==
    \E s \in Slots :
        /\ reqs[s] # Idle
        /\ reqs[s].op = "create"
        /\ heap[reqs[s].ref].priority = Medium

\* the body holds a title that is accepted, and nothing else
OnlyTitle(b) == ValidTitle(b) /\ b.priority = Undefined /\ b.dueDate = Undefined

\* the step sends the response of the create request of slot s
CreateAnswered(s) == reqs[s].op = "create" /\ reqs'[s] = Idle /\ phase' = "up"

\* C13: a create with only a title appends a record whose completed is false,
\* archived is false, priority is medium and dueDate is null, and the request
\* is answered 201 with that record, the last of the collection
C13_CreateDefaultsAndResponse ==
    [][/\ \A b \in Bodies :
             (OnlyTitle(b) /\ CreateRequest(b))
             => /\ Accepted
                /\ Appended.completed = FALSE
                /\ Archived(Appended) = Bool(FALSE)
                /\ Appended.priority = Medium
                /\ Appended.dueDate = Null
       /\ \A s \in Slots :
             CreateAnswered(s)
             => ev' = Response("create", 201, <<heap[goals[Len(goals)]]>>)]_vars

\* the ids the client of SpecPayload names, the last of which no goal has
PayloadIds == 1..(MaxPayloadId + 1)

\* the step answers a create with 400, or any request with 404
Refused == (ev'.op = "create" /\ ev'.status = 400) \/ ev'.status = 404

\* C14: the create handler decides on 400 for every title that is missing,
\* not a string or blank, and the lookup finds nothing for an id no goal has
\* (the handlers of update, toggle and delete then answer 404); a step that
\* answers a create with 400 or a request with 404 leaves the collection,
\* nextGoalId and the data file as they were and starts no saveGoals
C14_RejectionsChangeNothing ==
    /\ [](\A b \in Bodies : ~ValidTitle(b) => CreateStatus(b) = 400)
    /\ [](\A id \in PayloadIds : id \notin Ids => Find(id) = 0)
    /\ [][Refused => UNCHANGED <<heap, goals, nextGoalId, file, reqs>>]_vars

\* a delete has been answered 404 while the collection and the file hold a goal
C14_Witness ==
    /\ ev = Response("delete", 404, <<>>)
    /\ goals # <<>>
    /\ Persisted # <<>>

(***************************************************************************)
(* Updates that are rejected.                                              *)
(***************************************************************************)
\* C15: a PATCH /api/goals/:id that is answered 400 leaves the goal it names
\* and the rest of the collection as they were before the request
C15_RejectedUpdateChangesNothing ==
    [][(ev'.op = "update" /\ ev'.status = 400) => Collection' = Collection]_vars

(***************************************************************************)
(* The list and its filters.                                               *)
(***************************************************************************)
\* the goals of the list the step answers with
Listed == {ev'.items[i] : i \in DOMAIN ev'.items}

\* C16: a goal is created with completed false, completed changes only by a
\* toggle of that goal, which negates it, and a list with status=active
\* returns exactly the goals whose completed is false, a list with
\* status=completed exactly those whose completed is true: so a new goal is in
\* the active list and not in the completed one, and after one toggle, until
\* the next toggle or its deletion, it is in the completed list and not in
\* the active one
C16_StatusFilterFollowsToggle ==
    [][/\ CreateStep => ~Appended.completed
       /\ \A a \in DOMAIN heap \cap DOMAIN heap' :
             (heap' # heap /\ phase' = "up" /\ heap'[a].completed # heap[a].completed)
             => ToggleStep(heap[a].id)
       /\ \A id \in PayloadIds :
             ToggleStep(id) => \A i \in DOMAIN goals :
                 Collection[i].id = id
                 => Collection'[i].completed = ~Collection[i].completed
       /\ (ev'.op = "list" /\ GetGoals(ActiveQuery))
             => \A i \in DOMAIN goals :
                    Collection[i] \in Listed <=> ~Collection[i].completed
       /\ (ev'.op = "list" /\ GetGoals(CompletedQuery))
             => \A i \in DOMAIN goals :
                    Collection[i] \in Listed <=> Collection[i].completed]_vars

\* a list has been answered without the one goal of the collection, which is
\* completed: the answer to status=active after a toggle
C16_Witness ==
    /\ ev = Response("list", 200, <<>>)
    /\ Len(goals) = 1
    /\ heap[goals[1]].completed

\* the day the clock of the server shows
Today == <<"2", "0", "2", "4", "-", "0", "6", "-", "1", "5">>

\* the characters of a date, in the order of their codes
DateChars == <<"-", "0", "1", "2", "3", "4", "5", "6", "7", "8", "9">>

Code(c) == CHOOSE k \in DOMAIN DateChars : DateChars[k] = c

RECURSIVE Before(_, _)
\* a < b for two strings of dates, character by character
Before(a, b) ==
    IF b = <<>> THEN FALSE
    ELSE IF a = <<>> THEN TRUE
    ELSE IF Head(a) # Head(b) THEN Code(Head(a)) < Code(Head(b))
    ELSE Before(Tail(a), Tail(b))

IsOverdue(g) == g.dueDate # Null /\ Before(g.dueDate.s, Today) /\ ~g.completed

\* C17: a list with status=overdue returns exactly the goals that have a
\* dueDate earlier than today and are not completed, in the order of the
\* collection
C17_OverdueListsExactlyOverdue ==
    [][(ev'.op = "list" /\ GetGoals(OverdueQuery))
          => ev'.items = SelectSeq(Collection, IsOverdue)]_vars

\* C18: a list with status=active, includeArchived absent or false, returns no
\* goal whose archived is true
C18_ActiveListHidesArchived ==
    [][(ev'.op = "list" /\ (GetGoals(ActiveQuery) \/ GetGoals(VisibleActiveQuery)))
          => \A g \in Listed : Archived(g) # Bool(TRUE)]_vars

(***************************************************************************)
(* Pages and order of the list.                                            *)
(***************************************************************************)
DefaultPageSize == 10

DecimalDigits == <<"0", "1", "2", "3", "4", "5", "6", "7", "8", "9">>

\* the number a parameter of one digit stands for, or the default when absent
ParamNumber(v, default) ==
    IF v = Undefined THEN default
    ELSE (CHOOSE k \in DOMAIN DecimalDigits : DecimalDigits[k] = v.s[1]) - 1

\* C19: a list returns at most pageSize goals (10 when the parameter is
\* absent), and exactly pageSize when goals remain after its page
C19_PageHoldsAtMostPageSize ==
    [][\A query \in PageQueries :
          (ev'.op = "list" /\ GetGoals(query))
          => LET page == ParamNumber(query.page, 1)
                 pageSize == ParamNumber(query.pageSize, DefaultPageSize)
             IN /\ Len(ev'.items) <= pageSize
                /\ page * pageSize < Len(goals) => Len(ev'.items) = pageSize]_vars

Rank(priority) ==
    CASE priority = Low -> 1
      [] priority = Medium -> 2
      [] priority = High -> 3
      [] OTHER -> 0

\* the place of the goal id in the collection
PlaceOf(id) == CHOOSE i \in DOMAIN goals : Collection[i].id = id

\* C20: a list with sortBy=priority and order=asc returns the goals of the
\* collection with low before medium before high, goals of equal priority in
\* the order they have in the collection
C20_SortedByPriorityStable ==
    [][(ev'.op = "list" /\ GetGoals(SortQuery))
          => LET items == ev'.items
             IN /\ Len(items) = Len(goals)
                /\ Listed = {Collection[i] : i \in DOMAIN goals}
                /\ \A i, j \in DOMAIN items :
                      i < j => \/ Rank(items[i].priority) < Rank(items[j].priority)
                               \/ /\ Rank(items[i].priority) = Rank(items[j].priority)
                                  /\ PlaceOf(items[i].id) < PlaceOf(items[j].id)]_vars

(***************************************************************************)
(* Parameters of the list and of the counts.                               *)
(***************************************************************************)
\* C21: a list or a count asked with status=urgent, a value outside active,
\* completed, overdue and archived, is answered 400 without items or counts
C21_UnknownStatusRejected ==
    [][(ev'.op \in {"list", "stats"}
          /\ (GetGoals(UrgentQuery) \/ GetStats(UrgentQuery)))
          => (ev'.status = 400 /\ ev'.items = <<>>)]_vars

\* C22: the counts answered for a query have total equal to the number of
\* goals the list selects for the same query, active + completed = total, and
\* low + medium + high at most total
C22_StatsCountTheListedGoals ==
    [][\A query \in StatsQueries :
          (ev'.op = "stats" /\ GetStats(query))
          => LET counts == ev'.items[1]
             IN /\ ev'.status = 200
                /\ counts.total = Len(filterGoals(Collection, query))
                /\ counts.active + counts.completed = counts.total
                /\ counts.low + counts.medium + counts.high <= counts.total]_vars

\* counts have been answered for a query that selects one of two goals
C22_Witness ==
    /\ ev.op = "stats"
    /\ Len(goals) = 2
    /\ ev.items[1].total = 1

(***************************************************************************)
(* Import.                                                                 *)
(***************************************************************************)
\* the indices (from 0) of the candidates whose title is blank
BlankAt(items) ==
    {i - 1 : i \in {j \in DOMAIN items : items[j].title.s \in {<<>>, <<" ", "\t">>}}}

\* C23: an import whose batch holds a candidate with a blank title is
\* answered 400 with the first such index, and the collection, nextGoalId,
\* the data file and the pending saves stay as they were
C23_ImportWithBlankTitleRejectedWhole ==
    [][\A mode \in ImportModes, items \in ImportBatches :
          (BlankAt(items) # {} /\ Import(mode, items, 1, 1, 1..MaxImportId))
          => /\ ev'.op = "import" /\ ev'.status = 400
             /\ ev'.items[1].index \in BlankAt(items)
             /\ \A k \in BlankAt(items) : ev'.items[1].index <= k
             /\ UNCHANGED <<heap, goals, nextGoalId, file, reqs>>]_vars

\* a batch with its first blank title at index 2 has been rejected while the
\* collection and the file hold a goal
C23_Witness ==
    /\ ev = Response("import", 400, <<[index |-> 2]>>)
    /\ goals # <<>>
    /\ Persisted # <<>>

(***************************************************************************)
(* First run.                                                              *)
(***************************************************************************)
\* C24: loadGoals with no data file leaves the collection empty and
\* nextGoalId at 1, writes an empty array to the file and logs no error;
\* nextGoalId stays 1 until a create, and the create handled at nextGoalId 1
\* stores and answers id 1
C24_FirstRunStartsEmptyAtIdOne ==
    /\ [][(file = FileAbsent /\ LoadGoals)
            => /\ goals' = <<>> /\ nextGoalId' = 1
               /\ file' = FileArray(<<>>)
               /\ ev' = NoResponse]_vars
    /\ [][(phase = "up" /\ phase' = "up" /\ nextGoalId = 1 /\ ~CreateStep)
            => nextGoalId' = 1]_vars
    /\ [][(CreateStep /\ nextGoalId = 1) => Appended.id = 1]_vars
    /\ [][(issued = {1} /\ ev'.op = "create" /\ ev'.status = 201)
            => ev'.items[1].id = 1]_vars

\* the process is up on the empty array it wrote where no file was
C24_Witness ==
    /\ phase = "up"
    /\ file = FileArray(<<>>)
    /\ goals = <<>> /\ nextGoalId = 1
    /\ issued = {} /\ retired = 0

(***************************************************************************)
(* A save that fails.                                                      *)
(***************************************************************************)
\* C25: when the save of a create, update, toggle or delete fails, the
\* request ends with no success response and holds no further write, the
\* collection and nextGoalId keep what the request did to them, and a list
\* asked afterwards answers the collection as it is in memory
C25_FailedSaveKeepsMutationNoRetry ==
    /\ [][\A s \in Slots :
             (reqs[s].op \in Mutating /\ SaveFails(s))
             => /\ ev'.status \notin Success
                /\ reqs'[s] = Idle
                /\ file' = file
                /\ Collection' = Collection
                /\ nextGoalId' = nextGoalId]_vars
    /\ [][(ev'.op = "list" /\ GetGoals(NoQuery)) => ev'.items = Collection]_vars

\* a list answers the goal of a create whose save failed: the goal is in
\* no write that reached the file, and nextGoalId has moved past its id
C25_Witness ==
    /\ Quiet
    /\ ev.op = "list" /\ ev.items = Collection
    /\ goals # <<>> /\ Persisted = <<>>
    /\ nextGoalId = 2

(***************************************************************************)
(* The filters of the list.                                                *)
(***************************************************************************)
\* what a parameter says: its text without the white space around it, in
\* lower case; nothing when the parameter is absent
Said(v) == IF v = Undefined THEN <<>> ELSE ToLowerCase(Trim(v.s))

\* text holds part, whatever the case of either
HoldsIgnoringCase(text, part) ==
    \E i \in 0..(Len(text) - Len(part)) :
       \A k \in DOMAIN part : LowerChar(text[i + k]) = LowerChar(part[k])

\* the goal satisfies each of the filters the query supplies
Matches(goal, query) ==
    /\ Said(query.status) = <<"a", "c", "t", "i", "v", "e">> => goal.completed = FALSE
    /\ Said(query.status) = <<"c", "o", "m", "p", "l", "e", "t", "e", "d">>
          => goal.completed = TRUE
    /\ Said(query.priority) \notin {<<>>, <<"a", "l", "l">>}
          => goal.priority = Said(query.priority)
    /\ Said(query.q) # <<>> => HoldsIgnoringCase(goal.title, Said(query.q))

\* C26: the list answers, in the order of the collection, exactly the goals
\* that satisfy all the filters of the query together: status active keeps
\* the goals not completed, status completed the completed ones, a priority
\* other than none or all the goals of that priority, a q that is not empty
\* the goals whose title holds it whatever the case; a filter that is absent
\* excludes nothing
C26_ListAnswersGoalsMatchingAllFilters ==
    [][\A query \in FilterQueries :
          (ev'.op = "list" /\ GetGoals(query))
          => /\ ev'.status = 200
             /\ ev'.items = SelectSeq(Collection, LAMBDA goal : Matches(goal, query))
             /\ (query = NoQuery => ev'.items = Collection)]_vars

\* q=A has listed the second of two goals, titled a: neither goal is
\* completed and the one listed has the priority medium
C26_Witness ==
    /\ ev.op = "list"
    /\ Len(goals) = 2
    /\ ev.items = <<Collection[2]>>
    /\ Collection[2].title = TitleA /\ Collection[2].priority = Medium
    /\ ~Collection[1].completed /\ ~Collection[2].completed

(***************************************************************************)
(* The fields an update leaves alone.                                      *)
(***************************************************************************)
\* C27: an update that is accepted changes, of the goal it names, only the
\* fields its body supplies: title, priority and dueDate keep their value
\* when the body has none for them, a dueDate of null makes dueDate null,
\* completed, id and createdAt stay, and so does every other goal
C27_UpdateChangesOnlySuppliedFields ==
    [][\A id \in FieldIds, body \in FieldBodies :
          (Find(id) # 0 /\ Update(id, body, 1) /\ reqs' # reqs)
          => LET i == Find(id)
                 old == Collection[i]
                 new == Collection'[i]
             IN /\ DOMAIN Collection' = DOMAIN Collection
                /\ \A j \in DOMAIN Collection : j # i => Collection'[j] = Collection[j]
                /\ body.title = Undefined => new.title = old.title
                /\ body.priority = Undefined => new.priority = old.priority
                /\ body.dueDate = Undefined => new.dueDate = old.dueDate
                /\ body.dueDate = Null => new.dueDate = Null
                /\ new.completed = old.completed
                /\ new.id = old.id
                /\ new.createdAt = old.createdAt
                /\ nextGoalId' = nextGoalId]_vars

\* the update that sent dueDate: null to the completed goal created with a
\* due date is answered: the date is gone, title, priority and completed stay
C27_Witness ==
    /\ ev.op = "update" /\ ev.status = 200
    /\ Len(goals) = 2
    /\ ev.items[1].title = TitleBc /\ ev.items[1].priority = Low
    /\ ev.items[1].completed
    /\ ev.items[1].dueDate = Null

(***************************************************************************)
(* Concurrent saves.                                                       *)
(***************************************************************************)
\* C28: when every request has been answered, and the process has accepted
\* a create, the data file holds the collection as it is in memory
C28_FileHoldsCollectionWhenQuiet ==
    (Quiet /\ issued # {}) => file = FileArray(Collection)

\* C29: the goal in the answer of a toggle has completed equal to the
\* negation of the value the handler of that toggle found, also when another
\* toggle or an update of the goal was handled before the answer left
C29_ToggleAnswersNegationOfValueFound ==
    [][\A s \in Slots :
          (reqs[s].op = "toggle" /\ Respond(s))
          => /\ ev'.op = "toggle" /\ ev'.status = 200
             /\ ev'.items[1].completed = ~reqs[s].was]_vars

(***************************************************************************)
(* Delete.                                                                 *)
(***************************************************************************)
\* C30: a delete of an id the collection holds is answered 204 and removes
\* the goal with that id and no other: the goals that remain are the others,
\* unchanged and in their order, and nextGoalId stays; a delete of an id the
\* collection does not hold, as after that delete, is answered 404 and
\* changes nothing
C30_DeleteRemovesExactlyThatGoal ==
    [][\A id \in 1..MaxGoalId :
          Delete(id, 1)
          => IF id \in Ids
             THEN /\ Collection' = SelectSeq(Collection, LAMBDA goal : goal.id # id)
                  /\ Len(Collection') = Len(Collection) - 1
                  /\ id \notin Ids'
                  /\ nextGoalId' = nextGoalId
                  /\ \E s \in Slots : reqs'[s].op = "delete" /\ reqs'[s].status = 204
             ELSE /\ ev' = Response("delete", 404, <<>>)
                  /\ UNCHANGED <<heap, goals, nextGoalId, file, reqs>>]_vars

\* goal 1 of two has been deleted from the collection and the file, and a
\* second delete of id 1 is answered 404 while goal 2 remains
C30_Witness ==
    /\ ev = Response("delete", 404, <<>>)
    /\ retired = 1
    /\ Ids = {2}
    /\ Persisted = Collection

(***************************************************************************)
(* A data file that holds no array.                                        *)
(***************************************************************************)
\* the file cannot be read or parsed, or parses to something else than an array
Unusable == file.kind \in {"garbage", "object"}

\* C31: loadGoals on a file that cannot be read or parsed, or that holds no
\* array, leaves the collection empty, nextGoalId at 1 and the file as it
\* is; the file stays so until the write of a mutation lands, and that write
\* replaces its content with the collection in memory and nothing else
C31_UnusableFileKeptUntilFirstSave ==
    /\ [][(Unusable /\ LoadGoals)
            => /\ goals' = <<>> /\ nextGoalId' = 1
               /\ file' = file]_vars
    /\ [][(Unusable /\ \A s \in Slots : reqs[s].pc # "write") => file' = file]_vars
    /\ [][\A s \in Slots :
             (Unusable /\ WriteLands(s))
             => /\ reqs[s].op \in Mutating
                /\ file' = FileArray(Collection')
                /\ Collection' = Collection]_vars

\* the process loaded a file it could not parse and has created a goal: the
\* write of the collection is in flight and the file is still as it was
C31_Witness ==
    /\ phase = "up"
    /\ file = FileGarbage
    /\ goals # <<>>
    /\ \E s \in Slots : reqs[s].pc = "write" /\ reqs[s].snap = Collection

====
